---- MODULE Spec2Model ----
(***************************************************************************)
(* Model of torch/_dynamo/external_utils.py: the thread-local wrapper      *)
(* cache of wrap_inline, the memoized create_new_fn, call_backward, the    *)
(* hook helpers and wrap_numpy.                                            *)
(***************************************************************************)
EXTENDS Integers, Sequences, FiniteSets, TLC

(* ------------------------------ bounds -------------------------------- *)
NumThreads == 2        \* execution contexts (threads) calling wrap_inline
MaxBuilds == 2         \* indirection closures `inner` ever created
MaxLen == 2            \* length of saved_tensors / *args in call_backward
NumTensors == 2        \* distinct tensor values in call_backward

Threads == 1..NumThreads
\* the thread that executes the module body (lines 32-34)
ImportThread == 1

(* ------------------- the callables given to wrap_inline ---------------- *)
\* Object references are integers: 1..NumBase are the caller's objects,
\* NumBase + i is the i-th function object built by create_new_fn.
F1 == 1     \* plain function, closure #1 of one `def` (body 1)
F2 == 2     \* plain function, closure #2 of the same `def` (body 1)
M == 3      \* torch.nn.Module instance, forward has body 3
M2 == 4     \* second instance of M's class (forward has body 3 too), in a
            \* state that makes forward raise
P == 5      \* invocable object without __code__ (e.g. functools.partial)
N == 6      \* not invocable, no forward, no __code__ (e.g. an int)
NumBase == 6
BaseObjs == 1..NumBase
\* the code object of `def inner` (line 73), shared by every closure of it
InnerCode == 4
\* code objects allocated by the rewriter are FirstNewCode, FirstNewCode+1, ..
FirstNewCode == 5

Args == 1..2
EmptyDict == [k \in {} |-> 0]

NoErr == "none"
ErrNoCache == "AttributeError: '_thread._local' object has no attribute 'cached_wrappers'"
ErrNoCode == "AttributeError: __code__"
ErrNotCallable == "TypeError: object is not callable"
RewriteErrs == {"RewriteFailure: malformed", "RewriteFailure: unsupported"}

Ret(v) == [kind |-> "ret", val |-> v, err |-> NoErr]
Raise(e) == [kind |-> "raise", val |-> 0, err |-> e]
NoResult == [kind |-> "none", val |-> 0, err |-> NoErr]

VARIABLES
    cached_wrappers,  \* _TLS.cached_wrappers per thread-local slot
    memo,             \* functools.lru_cache of create_new_fn: inner id -> fn
    wrappers,         \* function objects built so far (heap), in order
    nextInner,        \* number of `inner` closures created so far
    pc, fn, key, new_fn, result,   \* the frame of wrap_inline in each thread
    rewriterLog,      \* outcomes of transform_code_object in the current call
    invoked,          \* last invocation of the wrapper a thread received
    returned,         \* history: <<thread, fn, wrapper>> of successful calls
    bw,               \* the last call_backward call: inputs, what
                      \* backward_fn saw, and the value returned
    hk                \* np (lines 11-14) and the pending call of a hook
                      \* helper or of wrap_numpy: inputs, the calls it made
                      \* to hooks, and its outcome

wrapVars == <<cached_wrappers, memo, wrappers, nextInner, pc, fn, key, new_fn,
              result, rewriterLog, invoked, returned>>
vars == <<cached_wrappers, memo, wrappers, nextInner, pc, fn, key, new_fn,
          result, rewriterLog, invoked, returned, bw, hk>>

(* ----------------------- attributes of objects ------------------------- *)
IsWrapper(o) == o > NumBase
WrapperOf(o) == wrappers[o - NumBase]
WrapperRefs == {NumBase + i : i \in 1..Len(wrappers)}

\* isinstance(fn, torch.nn.Module)
IsModule(o) == o \in {M, M2}

\* fn.__code__; 0 when the attribute lookup raises AttributeError
CodeAttr(o) ==
    IF IsWrapper(o) THEN WrapperOf(o).code
    ELSE CASE o = F1 -> 1
           [] o = F2 -> 1
           [] OTHER -> 0

\* fn.forward.__code__; 0 when the attribute lookup raises AttributeError
ForwardCodeAttr(o) == IF o \in {M, M2} THEN 3 ELSE 0

\* fn.__name__, "" when the object has no such attribute
NameAttr(o) ==
    IF IsWrapper(o) THEN WrapperOf(o).name
    ELSE CASE o = F1 -> "f"
           [] o = F2 -> "f"
           [] OTHER -> ""

\* fn.__dict__
DictAttr(o) ==
    IF IsWrapper(o) THEN WrapperOf(o).dict
    ELSE CASE o = F2 -> [k \in {"tag"} |-> 7]
           [] o = M -> [k \in {"training"} |-> 1]
           [] o = M2 -> [k \in {"training"} |-> 0]
           [] OTHER -> EmptyDict

\* what calling a caller's object with argument a does
BaseCall(o, a) ==
    CASE o = F1 -> Ret(a + 10)
      [] o = F2 -> Ret(a + 20)
      [] o = M -> Ret(a + 30)
      [] o = M2 -> Raise("ValueError")
      [] o = P -> Ret(a + 40)
      [] OTHER -> Raise(ErrNotCallable)

\* o(a): a built function runs inner with the fn its closure captured
\* inner (lines 73-74): return fn(*args, **kwargs)
RECURSIVE CallObject(_, _), inner(_, _)
inner(target, a) == CallObject(target, a)
CallObject(o, a) ==
    IF IsWrapper(o) THEN inner(WrapperOf(o).target, a) ELSE BaseCall(o, a)

(* --------------------------- thread-local state ------------------------ *)
NoAttr == [present |-> FALSE, map |-> EmptyDict]
EmptyCache == [present |-> TRUE, map |-> EmptyDict]

\* threading.local(): each thread reads and writes its own slot
TLSSlotShared(t) == ImportThread
TLSSlot(t) == t

\* cached_wrappers.get(key) (line 70): the wrapper, or 0 for None
CacheGet(map, k) == IF k \in DOMAIN map THEN map[k] ELSE 0

\* return cached_wrapper (line 71): a hit hands the cached function object
\* out as it is
ReturnCachedRewrapped(o, w) ==
    [w EXCEPT !.dict = [x \in DOMAIN w.dict \cup {"__wrapped__"} |->
                           IF x = "__wrapped__" THEN o ELSE w.dict[x]],
              !.target = o]
ReturnCached(o, w) == w

\* cached_wrappers[key] = new_fn (line 82)
CacheStoreDropped(map, k, w) == map
CacheStoreEvict(map, k, w) == [c \in {k} |-> w]
CacheStore(map, k, w) ==
    [c \in DOMAIN map \cup {k} |-> IF c = k THEN w ELSE map[c]]

\* key extraction (lines 65-68); 0 stands for the AttributeError
KeyOfDefault(o) ==
    IF IsModule(o) THEN ForwardCodeAttr(o)
    ELSE IF CodeAttr(o) = 0 THEN InnerCode ELSE CodeAttr(o)
KeyOfObjectId(o) ==
    IF IsModule(o) THEN (IF ForwardCodeAttr(o) = 0 THEN 0 ELSE 100 + o)
    ELSE (IF CodeAttr(o) = 0 THEN 0 ELSE 100 + o)
KeyOf(o) == IF IsModule(o) THEN ForwardCodeAttr(o) ELSE CodeAttr(o)

(* ------------------------------ the rewriter --------------------------- *)
\* transform_code_object(fn.__code__, nothing): a code object with a fresh
\* identity, or a failure
RewriterOutcomes(n) ==
    {[ok |-> TRUE, code |-> FirstNewCode + n, err |-> NoErr]}
    \cup {[ok |-> FALSE, code |-> 0, err |-> e] : e \in RewriteErrs}

\* the lru_cache key of create_new_fn(inner): the function object itself
MemoKeyByCode(i) == 0
MemoKey(i) == i

\* create_new_fn body (lines 38-53) given the rewriter's outcome: a new
\* function object with the new code and inner's closure and name, or the
\* rewriter's exception
CreateNewFnFallback(target, out, t, k) ==
    Ret([code |-> IF out.ok THEN out.code ELSE InnerCode, target |-> target,
         name |-> "inner", dict |-> EmptyDict, creator |-> t, key |-> k])
CreateNewFn(target, out, t, k) ==
    IF out.ok
    THEN Ret([code |-> out.code, target |-> target, name |-> "inner",
              dict |-> EmptyDict, creator |-> t, key |-> k])
    ELSE Raise(out.err)

\* the lru_cache of create_new_fn after a call with key i that gave r: a
\* returned function object is memoized, an exception is not
MemoAfterAlways(m, i, r, ref) ==
    [c \in DOMAIN m \cup {i} |->
        IF c = i THEN (IF r.kind = "ret" THEN ref ELSE 0) ELSE m[c]]
MemoAfter(m, i, r, ref) ==
    IF r.kind = "ret"
    THEN [c \in DOMAIN m \cup {i} |-> IF c = i THEN ref ELSE m[c]]
    ELSE m

\* dict.update
DictUpdate(d, e) ==
    [k \in DOMAIN d \cup DOMAIN e |-> IF k \in DOMAIN e THEN e[k] ELSE d[k]]

\* functools.wraps(fn)(w) (line 80): copy __name__ when fn has one, update
\* w.__dict__ with fn.__dict__, then set w.__wrapped__ = fn
Wraps(o, w) ==
    [w EXCEPT !.name = IF NameAttr(o) = "" THEN w.name ELSE NameAttr(o),
              !.dict = DictUpdate(DictUpdate(w.dict, DictAttr(o)),
                                  [x \in {"__wrapped__"} |-> o])]

(* ------------------------------ call_backward -------------------------- *)
\* Python values: a tensor, None, or a tuple / list / tuple-subclass instance
Tensor(n) == [type |-> "Tensor", id |-> n, items |-> <<>>]
PyNone == [type |-> "NoneType", id |-> 0, items |-> <<>>]
PySeq(ty, s) == [type |-> ty, id |-> 0, items |-> s]
Tensors == {Tensor(n) : n \in 1..NumTensors}
TensorSeqs == UNION {[1..n -> Tensors] : n \in 0..MaxLen}

\* class FakeContext (lines 115-119)
FakeContext(saved_tensors) == [saved_tensors |-> saved_tensors]

\* the backward_fn callbacks: each returns a value of one Python type built
\* from the saved tensors of its context followed by its arguments
BackwardFns == {"one", "none", "tuple", "list", "namedtuple"}
backward_fn(bh, ctx, args) ==
    LET all == ctx.saved_tensors \o args IN
    CASE bh = "one" -> IF all = <<>> THEN Tensor(0) ELSE all[1]
      [] bh = "none" -> PyNone
      [] bh = "tuple" -> PySeq("tuple", all)
      [] bh = "list" -> PySeq("list", all)
      [] OTHER -> PySeq("namedtuple", all)

\* call_backward (lines 122-129)
call_backward_isinstance(bh, saved_tensors, args) ==
    LET grads == backward_fn(bh, FakeContext(saved_tensors), args) IN
    IF grads.type \notin {"tuple", "list", "namedtuple"}
    THEN PySeq("tuple", <<grads>>) ELSE grads
call_backward(bh, saved_tensors, args) ==
    LET grads == backward_fn(bh, FakeContext(saved_tensors), args) IN
    IF grads.type # "tuple" THEN PySeq("tuple", <<grads>>) ELSE grads

NoBw == [bh |-> "none yet", saved |-> <<>>, args |-> <<>>, ctx |-> <<>>,
         grads |-> <<>>, out |-> <<>>]

(* ------------------------ hook helpers, wrap_numpy ---------------------- *)
PyRet(v) == [kind |-> "ret", val |-> v, err |-> NoErr]
PyRaise(e) == [kind |-> "raise", val |-> PyNone, err |-> e]
ErrIndex == "IndexError: tuple index out of range"
ErrNoAttr == "AttributeError: bw_state has no such attribute"

\* res values handed to hooks: a tensor or None
Results == Tensors \cup {PyNone}
Module0 == [type |-> "Module", id |-> 1, items |-> <<>>]
FuncVal(ref, wrapped) == [type |-> "function", id |-> ref, items |-> wrapped]

\* the hooks: "none" returns None, "last" its last argument, "first" its
\* first argument, "empty" an empty tuple (falsy, but not None)
Hooks == {"none", "last", "first", "empty"}
HookSeqs == UNION {[1..n -> Hooks] : n \in 0..MaxLen}
hook(h, argv) ==
    CASE h = "none" -> PyNone
      [] h = "last" -> IF argv = <<>> THEN PyNone ELSE argv[Len(argv)]
      [] h = "first" -> IF argv = <<>> THEN PyNone ELSE argv[1]
      [] OTHER -> PySeq("tuple", <<>>)
Called(h, argv) == [hook |-> h, argv |-> argv, ret |-> hook(h, argv)]

\* call_hook (lines 87-94)
call_hook_falsy(h, args) ==
    LET res == hook(h, args) IN
    [calls |-> <<Called(h, args)>>,
     out |-> IF res = PyNone \/ res = PySeq("tuple", <<>>)
             THEN (IF args = <<>> THEN PyRaise(ErrIndex) ELSE PyRet(args[1]))
             ELSE PyRet(res)]
call_hook(h, args) ==
    LET res == hook(h, args) IN
    [calls |-> <<Called(h, args)>>,
     out |-> IF res = PyNone
             THEN (IF args = <<>> THEN PyRaise(ErrIndex) ELSE PyRet(args[1]))
             ELSE PyRet(res)]

\* the opaque backward-state object: attribute name -> value
BwState(hooks) ==
    [hook0 |-> IF hooks = <<>> THEN "none" ELSE hooks[1],
     hooks0 |-> hooks, module0 |-> Module0]
HookNames == {"hook0", "missing"}
HooksNames == {"hooks0", "missing"}
ModuleNames == {"module0", "missing"}

\* call_hook_from_backward_state (lines 136-137)
call_hook_from_backward_state_defaulting(args, bw_state, hook_name) ==
    IF hook_name \notin DOMAIN bw_state
    THEN [calls |-> <<>>, out |-> PyRaise(ErrNoAttr)]
    ELSE call_hook(bw_state[hook_name], args)
call_hook_from_backward_state(args, bw_state, hook_name) ==
    IF hook_name \notin DOMAIN bw_state
    THEN [calls |-> <<>>, out |-> PyRaise(ErrNoAttr)]
    ELSE [calls |-> <<Called(bw_state[hook_name], args)>>,
          out |-> PyRet(hook(bw_state[hook_name], args))]

\* the loop of lines 145-149, from hook i on
RECURSIVE HooksLoop(_, _, _, _, _, _)
HooksLoop(hooks, i, module, res, args, calls) ==
    IF i > Len(hooks)
    THEN [calls |-> calls, out |-> PyRet(res)]
    ELSE LET new_result == hook(hooks[i], <<module, res>> \o args) IN
         HooksLoop(hooks, i + 1, module,
                   IF new_result # PyNone THEN new_result ELSE res, args,
                   Append(calls, Called(hooks[i], <<module, res>> \o args)))

RECURSIVE HooksLoopOverwrite(_, _, _, _, _, _)
HooksLoopOverwrite(hooks, i, module, res, args, calls) ==
    IF i > Len(hooks)
    THEN [calls |-> calls, out |-> PyRet(res)]
    ELSE LET new_result == hook(hooks[i], <<module, res>> \o args) IN
         HooksLoopOverwrite(hooks, i + 1, module, new_result, args,
                   Append(calls, Called(hooks[i], <<module, res>> \o args)))

Reversed(s) == [i \in 1..Len(s) |-> s[Len(s) + 1 - i]]

\* call_module_hooks_from_backward_state (lines 140-149); the first
\* positional parameter is ignored
call_module_hooks_overwrite(u, res, args, bw_state, hooks_name, module_name) ==
    IF module_name \notin DOMAIN bw_state \/ hooks_name \notin DOMAIN bw_state
    THEN [calls |-> <<>>, out |-> PyRaise(ErrNoAttr)]
    ELSE HooksLoopOverwrite(bw_state[hooks_name], 1, bw_state[module_name],
                            res, args, <<>>)
call_module_hooks_reversed(u, res, args, bw_state, hooks_name, module_name) ==
    IF module_name \notin DOMAIN bw_state \/ hooks_name \notin DOMAIN bw_state
    THEN [calls |-> <<>>, out |-> PyRaise(ErrNoAttr)]
    ELSE HooksLoop(Reversed(bw_state[hooks_name]), 1, bw_state[module_name],
                   res, args, <<>>)
call_module_hooks_from_backward_state(u, res, args, bw_state, hooks_name, module_name) ==
    IF module_name \notin DOMAIN bw_state \/ hooks_name \notin DOMAIN bw_state
    THEN [calls |-> <<>>, out |-> PyRaise(ErrNoAttr)]
    ELSE HooksLoop(bw_state[hooks_name], 1, bw_state[module_name], res,
                   args, <<>>)

\* functions given to wrap_numpy, and the reference of the next new object
NumpyFns == {F1, F2}
NewRef == NumBase + Len(wrappers) + 1

\* wrap_numpy (lines 97-112): f itself without numpy, else a new function
\* `wrap` that functools.wraps(f) links to f
wrap_numpy_always(np, f) ==
    [calls |-> <<>>, out |-> PyRet(FuncVal(NewRef, <<FuncVal(f, <<>>)>>))]
wrap_numpy(np, f) ==
    [calls |-> <<>>,
     out |-> IF ~np THEN PyRet(FuncVal(f, <<>>))
             ELSE PyRet(FuncVal(NewRef, <<FuncVal(f, <<>>)>>))]

NoHk(np) == [np |-> np, op |-> "idle", hooks |-> <<>>, name |-> "",
             module_name |-> "", result |-> PyNone, args |-> <<>>, f |-> 0,
             calls |-> <<>>, out |-> PyRet(PyNone)]

(* -------------------------------- Init --------------------------------- *)
\* lines 32-34 run once, in the importing thread: only its slot gets the
\* attribute cached_wrappers
Init ==
    /\ cached_wrappers =
         [t \in Threads |-> IF t = ImportThread THEN EmptyCache ELSE NoAttr]
    /\ memo = EmptyDict
    /\ wrappers = <<>>
    /\ nextInner = 0
    /\ pc = [t \in Threads |-> "idle"]
    /\ fn = [t \in Threads |-> 0]
    /\ key = [t \in Threads |-> 0]
    /\ new_fn = [t \in Threads |-> 0]
    /\ result = [t \in Threads |-> NoResult]
    /\ rewriterLog = [t \in Threads |-> <<>>]
    /\ invoked = [t \in Threads |-> <<>>]
    /\ returned = {}
    /\ bw = NoBw
    /\ hk = NoHk(TRUE)

(* ------------------------------ wrap_inline ---------------------------- *)
\* a thread calls wrap_inline(f) (line 56)
Call(t, f) ==
    /\ pc[t] = "idle"
    /\ pc' = [pc EXCEPT ![t] = "getcache"]
    /\ fn' = [fn EXCEPT ![t] = f]
    /\ UNCHANGED <<cached_wrappers, memo, wrappers, nextInner, key, new_fn,
                   result, rewriterLog, invoked, returned, bw, hk>>

\* cached_wrappers = _TLS.cached_wrappers (line 63)
GetCache(t) ==
    /\ pc[t] = "getcache"
    /\ IF cached_wrappers[TLSSlot(t)].present
       THEN /\ pc' = [pc EXCEPT ![t] = "getkey"]
            /\ UNCHANGED result
       ELSE /\ pc' = [pc EXCEPT ![t] = "done"]
            /\ result' = [result EXCEPT ![t] = Raise(ErrNoCache)]
    /\ UNCHANGED <<cached_wrappers, memo, wrappers, nextInner, fn, key,
                   new_fn, rewriterLog, invoked, returned, bw, hk>>

\* lines 65-68
GetKey(t) ==
    /\ pc[t] = "getkey"
    /\ IF KeyOf(fn[t]) = 0
       THEN /\ pc' = [pc EXCEPT ![t] = "done"]
            /\ result' = [result EXCEPT ![t] = Raise(ErrNoCode)]
            /\ UNCHANGED key
       ELSE /\ pc' = [pc EXCEPT ![t] = "lookup"]
            /\ key' = [key EXCEPT ![t] = KeyOf(fn[t])]
            /\ UNCHANGED result
    /\ UNCHANGED <<cached_wrappers, memo, wrappers, nextInner, fn, new_fn,
                   rewriterLog, invoked, returned, bw, hk>>

\* lines 70-71
Lookup(t) ==
    /\ pc[t] = "lookup"
    /\ LET hit == CacheGet(cached_wrappers[TLSSlot(t)].map, key[t]) IN
       IF hit # 0
       THEN /\ pc' = [pc EXCEPT ![t] = "done"]
            /\ result' = [result EXCEPT ![t] = Ret(hit)]
            /\ returned' = returned \cup {<<t, fn[t], hit>>}
            /\ wrappers' = [wrappers EXCEPT ![hit - NumBase] =
                                ReturnCached(fn[t], @)]
       ELSE /\ pc' = [pc EXCEPT ![t] = "build"]
            /\ UNCHANGED <<result, returned, wrappers>>
    /\ UNCHANGED <<cached_wrappers, memo, nextInner, fn, key,
                   new_fn, rewriterLog, invoked, bw, hk>>

\* lines 73-80: define inner, call the memoized create_new_fn on it, apply
\* functools.wraps(fn) to what it returns
Build(t) ==
    /\ pc[t] = "build"
    /\ nextInner < MaxBuilds
    /\ nextInner' = nextInner + 1
    /\ LET i == MemoKey(nextInner + 1) IN
       IF i \in DOMAIN memo
       THEN \* lru_cache hit: the function object built earlier for this key
            /\ wrappers' = [wrappers EXCEPT ![memo[i] - NumBase] =
                                Wraps(fn[t], @)]
            /\ new_fn' = [new_fn EXCEPT ![t] = memo[i]]
            /\ pc' = [pc EXCEPT ![t] = "store"]
            /\ UNCHANGED <<memo, rewriterLog, result>>
       ELSE \E out \in RewriterOutcomes(Len(wrappers)) :
              LET r == CreateNewFn(fn[t], out, t, key[t]) IN
              /\ rewriterLog' = [rewriterLog EXCEPT ![t] = Append(@, out)]
              /\ memo' = MemoAfter(memo, i, r, NumBase + Len(wrappers) + 1)
              /\ IF r.kind = "ret"
                 THEN /\ wrappers' = Append(wrappers, Wraps(fn[t], r.val))
                      /\ new_fn' = [new_fn EXCEPT
                                      ![t] = NumBase + Len(wrappers) + 1]
                      /\ pc' = [pc EXCEPT ![t] = "store"]
                      /\ UNCHANGED result
                 ELSE /\ pc' = [pc EXCEPT ![t] = "done"]
                      /\ result' = [result EXCEPT ![t] = r]
                      /\ UNCHANGED <<wrappers, new_fn>>
    /\ UNCHANGED <<cached_wrappers, fn, key, invoked, returned, bw, hk>>

\* lines 82-84
Store(t) ==
    /\ pc[t] = "store"
    /\ cached_wrappers' =
         [cached_wrappers EXCEPT ![TLSSlot(t)].map =
              CacheStore(@, key[t], new_fn[t])]
    /\ pc' = [pc EXCEPT ![t] = "done"]
    /\ result' = [result EXCEPT ![t] = Ret(new_fn[t])]
    /\ returned' = returned \cup {<<t, fn[t], new_fn[t]>>}
    /\ UNCHANGED <<memo, wrappers, nextInner, fn, key, new_fn, rewriterLog,
                   invoked, bw, hk>>

\* the caller invokes the wrapper it received (lines 73-74 run)
InvokeWrapper(t, a) ==
    /\ pc[t] = "done"
    /\ result[t].kind = "ret"
    /\ invoked[t] = <<>>
    /\ invoked' = [invoked EXCEPT
                     ![t] = <<[arg |-> a, res |-> CallObject(result[t].val, a)]>>]
    /\ UNCHANGED <<cached_wrappers, memo, wrappers, nextInner, pc, fn, key,
                   new_fn, result, rewriterLog, returned, bw, hk>>

\* the caller is done with the call: the wrap_inline frame is gone and the
\* thread may call again
Finish(t) ==
    /\ pc[t] = "done"
    /\ pc' = [pc EXCEPT ![t] = "idle"]
    /\ fn' = [fn EXCEPT ![t] = 0]
    /\ key' = [key EXCEPT ![t] = 0]
    /\ new_fn' = [new_fn EXCEPT ![t] = 0]
    /\ result' = [result EXCEPT ![t] = NoResult]
    /\ rewriterLog' = [rewriterLog EXCEPT ![t] = <<>>]
    /\ invoked' = [invoked EXCEPT ![t] = <<>>]
    /\ UNCHANGED <<cached_wrappers, memo, wrappers, nextInner, returned, bw, hk>>

Next ==
    \/ \E t \in Threads : \E f \in BaseObjs \cup WrapperRefs : Call(t, f)
    \/ \E t \in Threads : GetCache(t)
    \/ \E t \in Threads : GetKey(t)
    \/ \E t \in Threads : Lookup(t)
    \/ \E t \in Threads : Build(t)
    \/ \E t \in Threads : Store(t)
    \/ \E t \in Threads : \E a \in Args : InvokeWrapper(t, a)
    \/ \E t \in Threads : Finish(t)

Spec == Init /\ [][Next]_vars

\* a call of call_backward(bh, saved, *args), run to completion
CallBackward(bh, saved, args) ==
    /\ bw = NoBw
    /\ bw' = [bh |-> bh, saved |-> saved, args |-> args,
              ctx |-> FakeContext(saved),
              grads |-> backward_fn(bh, FakeContext(saved), args),
              out |-> call_backward(bh, saved, args)]
    /\ UNCHANGED <<wrapVars, hk>>

\* the caller has consumed the gradients of the last call_backward call
BackwardDone ==
    /\ bw # NoBw
    /\ bw' = NoBw
    /\ UNCHANGED <<wrapVars, hk>>

NextBackward ==
    \/ \E bh \in BackwardFns : \E saved \in TensorSeqs : \E args \in TensorSeqs :
          CallBackward(bh, saved, args)
    \/ BackwardDone

SpecBackward == Init /\ [][NextBackward]_vars

(* ---------------------- hook helper and wrap_numpy calls ---------------- *)
\* the module body with numpy importable or not (lines 11-14)
InitAdapters ==
    /\ cached_wrappers =
         [t \in Threads |-> IF t = ImportThread THEN EmptyCache ELSE NoAttr]
    /\ memo = EmptyDict
    /\ wrappers = <<>>
    /\ nextInner = 0
    /\ pc = [t \in Threads |-> "idle"]
    /\ fn = [t \in Threads |-> 0]
    /\ key = [t \in Threads |-> 0]
    /\ new_fn = [t \in Threads |-> 0]
    /\ result = [t \in Threads |-> NoResult]
    /\ rewriterLog = [t \in Threads |-> <<>>]
    /\ invoked = [t \in Threads |-> <<>>]
    /\ returned = {}
    /\ bw = NoBw
    /\ \E np \in BOOLEAN : hk = NoHk(np)

\* call_hook(h, *args), run to completion
CallHook ==
    /\ hk.op = "idle"
    /\ \E h \in Hooks : \E args \in TensorSeqs :
         LET r == call_hook(h, args)
         IN hk' = [hk EXCEPT !.op = "call_hook", !.hooks = <<h>>,
                             !.args = args,
                             !.calls = r.calls, !.out = r.out]
    /\ UNCHANGED <<wrapVars, bw>>

\* call_hook_from_backward_state(*args, bw_state=.., hook_name=..)
CallHookFromBackwardState ==
    /\ hk.op = "idle"
    /\ \E h \in Hooks : \E args \in TensorSeqs : \E hook_name \in HookNames :
         LET r == call_hook_from_backward_state(args, BwState(<<h>>),
                                                hook_name)
         IN hk' = [hk EXCEPT !.op = "call_hook_from_backward_state",
                             !.hooks = <<h>>, !.args = args,
                             !.name = hook_name,
                             !.calls = r.calls, !.out = r.out]
    /\ UNCHANGED <<wrapVars, bw>>

\* call_module_hooks_from_backward_state(_, result, *args, bw_state=..,
\* hooks_name=.., module_name=..)
CallModuleHooks ==
    /\ hk.op = "idle"
    /\ \E hooks \in HookSeqs : \E res \in Results : \E args \in TensorSeqs :
       \E hooks_name \in HooksNames : \E module_name \in ModuleNames :
         LET r == call_module_hooks_from_backward_state(
                      PyNone, res, args, BwState(hooks), hooks_name,
                      module_name)
         IN hk' = [hk EXCEPT !.op = "call_module_hooks_from_backward_state",
                             !.hooks = hooks, !.result = res, !.args = args,
                             !.name = hooks_name,
                             !.module_name = module_name,
                             !.calls = r.calls, !.out = r.out]
    /\ UNCHANGED <<wrapVars, bw>>

\* wrap_numpy(f)
WrapNumpy ==
    /\ hk.op = "idle"
    /\ \E f \in NumpyFns :
         LET r == wrap_numpy(hk.np, f)
         IN hk' = [hk EXCEPT !.op = "wrap_numpy", !.f = f,
                             !.calls = r.calls, !.out = r.out]
    /\ UNCHANGED <<wrapVars, bw>>

\* the caller has consumed the outcome of the pending call
AdapterDone ==
    /\ hk.op # "idle"
    /\ hk' = NoHk(hk.np)
    /\ UNCHANGED <<wrapVars, bw>>

NextAdapters ==
    \/ CallHook
    \/ CallHookFromBackwardState
    \/ CallModuleHooks
    \/ WrapNumpy
    \/ AdapterDone

SpecAdapters == InitAdapters /\ [][NextAdapters]_vars

(* ------------------------------- claims -------------------------------- *)
\* a finished wrap_inline call in thread t that returned a wrapper
Returned(t) == pc[t] = "done" /\ result[t].kind = "ret"
WCode(w) == WrapperOf(w).code

\* C1: idempotent wrapping. Two wrap_inline calls on the same callable in one
\* thread return the identical wrapper object, each (thread, code identity)
\* pair has at most one wrapper ever constructed for it, and a wrapper that
\* was returned is the one stored in the thread's cache under that identity.
C1_IdempotentWrapping ==
    /\ \A r1, r2 \in returned :
         (r1[1] = r2[1] /\ r1[2] = r2[2]) => r1[3] = r2[3]
    /\ \A i, j \in 1..Len(wrappers) :
         (wrappers[i].creator = wrappers[j].creator
            /\ wrappers[i].key = wrappers[j].key) => i = j
    /\ \A r \in returned :
         /\ cached_wrappers[r[1]].present
         /\ CacheGet(cached_wrappers[r[1]].map, KeyOf(r[2])) = r[3]

\* a second call on the callable the cached wrapper was built for: a hit
C1_Witness ==
    \E t \in Threads :
        /\ Returned(t)
        /\ rewriterLog[t] = <<>>
        /\ WrapperOf(result[t].val).target = fn[t]
        /\ WrapperOf(result[t].val).creator = t

\* C2: behavioural equivalence. Invoking the wrapper wrap_inline(f) returned
\* gives the result, or raises the error, that invoking f with the same
\* arguments gives.
C2_BehavioralEquivalence ==
    \A t \in Threads :
        (Returned(t) /\ invoked[t] # <<>>) =>
            invoked[t][1].res = CallObject(fn[t], invoked[t][1].arg)

\* C3: cross-thread independence. When two different threads have wrapped
\* the same callable f (one that has a code identity), both calls returned a
\* wrapper, the two wrappers are distinct objects, and each behaves as f.
C3_CrossThreadIndependence ==
    \A t, u \in Threads :
        (t # u /\ pc[t] = "done" /\ pc[u] = "done" /\ fn[t] = fn[u]
           /\ KeyOf(fn[t]) # 0 /\ result[t].err \notin RewriteErrs
           /\ result[u].err \notin RewriteErrs) =>
            /\ result[t].kind = "ret"
            /\ result[u].kind = "ret"
            /\ result[t].val # result[u].val
            /\ \A a \in Args :
                 CallObject(result[t].val, a) = CallObject(fn[t], a)

\* C4: lazy per-context initialization. No wrap_inline call in any thread
\* ends with the error of a missing cache: once a call is past line 63 its
\* thread has a cache.
C4_LazyInitialization ==
    \A t \in Threads :
        /\ result[t].err # ErrNoCache
        /\ pc[t] \in {"getkey", "lookup", "build", "store"} =>
             cached_wrappers[t].present

C7_MetadataPreservation ==
    \A t \in Threads :
        Returned(t) =>
            LET w == WrapperOf(result[t].val) IN
            /\ NameAttr(fn[t]) # "" => w.name = NameAttr(fn[t])
            /\ \A k \in DOMAIN DictAttr(fn[t]) :
                 k \in DOMAIN w.dict /\ w.dict[k] = DictAttr(fn[t])[k]

\* C8: invalid callable. A finished wrap_inline call on an input that is not
\* invocable and is not a module ended with an error, before any indirection
\* was built, and such an input was never handed a wrapper.
NotInvocable(o) == ~IsWrapper(o) /\ BaseCall(o, 1).err = ErrNotCallable
C8_InvalidCallableFails ==
    /\ \A t \in Threads :
         (pc[t] = "done" /\ NotInvocable(fn[t]) /\ ~IsModule(fn[t])) =>
             /\ result[t].kind = "raise"
             /\ new_fn[t] = 0
             /\ rewriterLog[t] = <<>>
    /\ \A r \in returned : ~NotInvocable(r[2]) \/ IsModule(r[2])

\* the thread that owns a cache rejected a non-invocable input at lines 65-68
C8_Witness ==
    \E t \in Threads :
        /\ pc[t] = "done"
        /\ NotInvocable(fn[t])
        /\ result[t] = Raise(ErrNoCode)

\* C9: rewrite failure propagation. The rewriter runs at most once in a
\* wrap_inline call, and when it failed the call ended by raising exactly
\* the rewriter's error, with no wrapper built or returned.
C9_RewriteFailurePropagates ==
    \A t \in Threads :
        /\ Len(rewriterLog[t]) <= 1
        /\ (rewriterLog[t] # <<>> /\ ~rewriterLog[t][1].ok) =>
             /\ pc[t] = "done"
             /\ result[t] = Raise(rewriterLog[t][1].err)
             /\ new_fn[t] = 0

C9_Witness ==
    \E t \in Threads :
        /\ pc[t] = "done"
        /\ rewriterLog[t] # <<>>
        /\ result[t].err \in RewriteErrs

\* backward_fn received a context with exactly the saved tensors, then args
BackwardCalledAsGiven ==
    /\ bw.ctx.saved_tensors = bw.saved
    /\ bw.grads = backward_fn(bw.bh, [saved_tensors |-> bw.saved], bw.args)

\* C10 as claimed: a sequence (tuple, list, tuple subclass) returned by
\* backward_fn is returned unchanged, any other value v becomes (v,).
C10_BackwardNormalization ==
    bw.bh \in BackwardFns =>
        /\ BackwardCalledAsGiven
        /\ bw.out = IF bw.grads.type \in {"tuple", "list", "namedtuple"}
                    THEN bw.grads
                    ELSE PySeq("tuple", <<bw.grads>>)

\* C10 amended: a value whose type is exactly tuple is returned unchanged;
\* any other value v, a list or a tuple-subclass instance included, becomes
\* the one-element tuple (v,).
C10_BackwardNormalizationExactTuple ==
    bw.bh \in BackwardFns =>
        /\ BackwardCalledAsGiven
        /\ bw.out = IF bw.grads.type = "tuple"
                    THEN bw.grads
                    ELSE PySeq("tuple", <<bw.grads>>)

\* backward_fn returned a non-empty list and call_backward has returned
C10_Witness ==
    /\ bw.bh = "list"
    /\ Len(bw.grads.items) = 2
    /\ bw.saved # <<>>
    /\ bw.out.type = "tuple"
\* the code identity of a callable: the body of forward for a module, the
\* callable's own body otherwise
BodyIdentity(o) == IF IsModule(o) THEN ForwardCodeAttr(o) ELSE CodeAttr(o)

\* C14: the cache key is the body identity. In one thread, two callables with
\* the same body identity (two functions sharing __code__, two modules whose
\* forward methods share one body) are handed the same wrapper object, and
\* the key a call looks up and stores under is the body of forward for a
\* module input and the input's own body otherwise.
C14_KeyIsBodyIdentity ==
    /\ \A r1, r2 \in returned :
         (r1[1] = r2[1] /\ BodyIdentity(r1[2]) = BodyIdentity(r2[2])) =>
             r1[3] = r2[3]
    /\ \A t \in Threads :
         pc[t] \in {"lookup", "build", "store"} =>
             key[t] = BodyIdentity(fn[t])
    /\ \A t \in Threads : \A k \in DOMAIN cached_wrappers[t].map :
         BodyIdentity(WrapperOf(cached_wrappers[t].map[k]).target) = k

\* two functions sharing a body and two modules sharing a forward body have
\* each been handed one wrapper
C14_Witness ==
    /\ \E r1, r2 \in returned :
         /\ r1[2] # r2[2] /\ r1[3] = r2[3]
         /\ IsModule(r1[2]) /\ IsModule(r2[2])
    /\ \E r1, r2 \in returned :
         /\ r1[2] # r2[2] /\ r1[3] = r2[3]
         /\ ~IsModule(r1[2]) /\ ~IsModule(r2[2])

\* C15: monotonic cache. In every step and every thread, a cache that exists
\* still exists, every entry is still there with the same wrapper, and a new
\* entry appears only at line 82 of a call of that thread that then returns
\* that wrapper, under the call's key, for an identity no earlier call of the
\* thread was handed a wrapper for.
C15_MonotonicCache ==
    [][\A t \in Threads :
         LET old == cached_wrappers[t]
             new == cached_wrappers'[t] IN
         /\ old.present => new.present
         /\ \A k \in DOMAIN old.map :
              k \in DOMAIN new.map /\ new.map[k] = old.map[k]
         /\ \A k \in DOMAIN new.map \ DOMAIN old.map :
              /\ pc[t] = "store" /\ pc'[t] = "done"
              /\ k = key[t]
              /\ result'[t] = Ret(new.map[k])
              /\ \A r \in returned : r[1] = t => BodyIdentity(r[2]) # k]_vars

\* a cache that holds two entries
C15_Witness ==
    \E t \in Threads : Cardinality(DOMAIN cached_wrappers[t].map) >= 2

\* C18: accepted inputs. In a thread that has a cache, and unless the
\* rewriter failed, a finished wrap_inline call returned a wrapper exactly
\* when its input is invocable or is a module.
Invocable(o) == IsWrapper(o) \/ BaseCall(o, 1).err # ErrNotCallable
C18_AcceptedInputs ==
    \A t \in Threads :
        (pc[t] = "done" /\ cached_wrappers[t].present
           /\ result[t].err \notin RewriteErrs) =>
            (result[t].kind = "ret" <=> (Invocable(fn[t]) \/ IsModule(fn[t])))

\* C19: failed wraps leave the cache unchanged. The step that ends a
\* wrap_inline call with an error changes neither a wrapper cache, nor the
\* memo of create_new_fn, nor any function object; the call never built or
\* stored a wrapper (a thread's cache changes only in the step that returns
\* a wrapper to it), the memo only holds built functions, and the key of the
\* failed call is still absent from the thread's cache, so that the next call
\* for that identity misses and builds again.
C19_FailedWrapLeavesCacheUnchanged ==
    /\ [](\A i \in DOMAIN memo : memo[i] \in WrapperRefs)
    /\ [][\A t \in Threads :
            /\ cached_wrappers'[t] # cached_wrappers[t] =>
                 (pc[t] = "store" /\ result'[t].kind = "ret")
            /\ (pc[t] # "done" /\ pc'[t] = "done"
                  /\ result'[t].kind = "raise") =>
                 /\ cached_wrappers' = cached_wrappers
                 /\ memo' = memo
                 /\ wrappers' = wrappers
                 /\ new_fn[t] = 0
                 /\ key[t] # 0 =>
                      CacheGet(cached_wrappers'[t].map, key[t]) = 0]_vars

\* a rewriter failure ended a call in a thread whose cache already has an
\* entry
C19_Witness ==
    \E t \in Threads :
        /\ pc[t] = "done"
        /\ result[t].err \in RewriteErrs
        /\ DOMAIN cached_wrappers[t].map # {}

\* C20: the wrapper's target is fixed at first wrap. A function object, once
\* built, never changes (target, name, attributes); it is built in a call
\* that missed, with that call's fn as the target its calls go to, which is
\* the callable line 80 recorded in its __wrapped__, whatever callable later
\* calls passed.
C20_TargetFixedAtFirstWrap ==
    /\ [](\A w \in WrapperRefs :
            WrapperOf(w).dict["__wrapped__"] = WrapperOf(w).target)
    /\ [][/\ \A i \in 1..Len(wrappers) :
               i <= Len(wrappers') /\ wrappers'[i] = wrappers[i]
          /\ Len(wrappers') > Len(wrappers) =>
               \E t \in Threads :
                   /\ pc[t] = "build" /\ pc'[t] = "store"
                   /\ wrappers'[Len(wrappers')].target = fn[t]
                   /\ wrappers'[Len(wrappers')].key = BodyIdentity(fn[t])]_vars

\* a call on a second callable sharing the body got the cached wrapper and
\* invoked it: the call went to the first callable
C20_Witness ==
    \E t \in Threads :
        /\ Returned(t)
        /\ WrapperOf(result[t].val).target # fn[t]
        /\ invoked[t] # <<>>
        /\ invoked[t][1].res =
             CallObject(WrapperOf(result[t].val).target, invoked[t][1].arg)
\* C11: hook default-propagation. call_hook(h, a, ...) with at least one
\* argument calls h exactly once, with exactly the given arguments, and
\* returns the first argument a when h returned None, h's result otherwise.
C11_HookDefaultPropagation ==
    (hk.op = "call_hook" /\ hk.args # <<>>) =>
        /\ Len(hk.calls) = 1
        /\ hk.calls[1].hook = hk.hooks[1]
        /\ hk.calls[1].argv = hk.args
        /\ hk.out = IF hk.calls[1].ret = PyNone
                    THEN PyRet(hk.args[1])
                    ELSE PyRet(hk.calls[1].ret)

\* a hook that returned None on two different arguments: the first is
\* returned
C11_Witness ==
    /\ hk.op = "call_hook"
    /\ Len(hk.args) = 2
    /\ hk.args[1] # hk.args[2]
    /\ hk.calls[1].ret = PyNone
    /\ hk.out = PyRet(hk.args[1])

\* the value of the last call before position i that did not return None,
\* or the original result
ThreadedResult(i) ==
    LET S == {j \in 1..(i - 1) : hk.calls[j].ret # PyNone} IN
    IF S = {} THEN hk.result
    ELSE hk.calls[CHOOSE j \in S : \A k \in S : k <= j].ret
ModuleHooksRan ==
    /\ hk.op = "call_module_hooks_from_backward_state"
    /\ hk.name \in DOMAIN BwState(hk.hooks)
    /\ hk.module_name \in DOMAIN BwState(hk.hooks)

\* C12: module-hook chaining result. The call returns the return value of
\* the last stored hook that returned a value other than None, and the
\* original result when every hook returned None or there is no hook.
C12_ModuleHookChainingResult ==
    ModuleHooksRan =>
        LET S == {j \in 1..Len(hk.hooks) :
                    hook(hk.hooks[j], hk.calls[j].argv) # PyNone} IN
        /\ Len(hk.calls) = Len(hk.hooks)
        /\ hk.out = IF S = {} THEN PyRet(hk.result)
                    ELSE PyRet(hk.calls[CHOOSE j \in S :
                                          \A k \in S : k <= j].ret)

\* hooks [h1, h2] where h1 returned a value and h2 returned None: h1's value
\* is returned
C12_Witness ==
    /\ ModuleHooksRan
    /\ Len(hk.hooks) = 2
    /\ hk.calls[1].ret # PyNone
    /\ hk.calls[1].ret # hk.result
    /\ hk.calls[2].ret = PyNone
    /\ hk.out = PyRet(hk.calls[1].ret)

\* C13: optional-dependency degradation. wrap_numpy(f) raises nothing;
\* without numpy it returns f itself, with numpy a new function object,
\* distinct from f, that wraps f.
C13_NumpyDegradation ==
    hk.op = "wrap_numpy" =>
        /\ hk.out.kind = "ret"
        /\ ~hk.np => hk.out.val = FuncVal(hk.f, <<>>)
        /\ hk.np => /\ hk.out.val.id # hk.f
                    /\ hk.out.val.items = <<FuncVal(hk.f, <<>>)>>

C13_Witness ==
    /\ hk.op = "wrap_numpy"
    /\ ~hk.np
    /\ hk.out.val.id = hk.f

\* C16: module-hook call order. Every stored hook is called exactly once, in
\* the stored order, the i-th with (module, current result, *args), where
\* the current result is the value of the last earlier hook that did not
\* return None, or the original result.
C16_ModuleHookCallOrder ==
    ModuleHooksRan =>
        /\ Len(hk.calls) = Len(hk.hooks)
        /\ \A i \in 1..Len(hk.hooks) :
             /\ hk.calls[i].hook = hk.hooks[i]
             /\ hk.calls[i].argv = <<Module0, ThreadedResult(i)>> \o hk.args

\* two different hooks, the second called with the value the first returned
C16_Witness ==
    /\ ModuleHooksRan
    /\ Len(hk.hooks) = 2
    /\ hk.hooks[1] # hk.hooks[2]
    /\ hk.args # <<>>
    /\ hk.calls[2].argv[2] = hk.calls[1].ret
    /\ hk.calls[2].argv[2] # hk.result

HookFromStateRan ==
    /\ hk.op = "call_hook_from_backward_state"
    /\ hk.name \in DOMAIN BwState(hk.hooks)

\* C17 as claimed: call_hook_from_backward_state calls the hook found under
\* hook_name with the given arguments, returns its value when that is not
\* None, and otherwise keeps a previous result (one of the arguments): it
\* never returns None for a hook that returned None.
C17_SingleHookThreading ==
    HookFromStateRan =>
        /\ Len(hk.calls) = 1
        /\ hk.calls[1].hook = BwState(hk.hooks)[hk.name]
        /\ hk.calls[1].argv = hk.args
        /\ hk.calls[1].ret # PyNone => hk.out = PyRet(hk.calls[1].ret)
        /\ hk.calls[1].ret = PyNone =>
             /\ hk.out.kind = "ret"
             /\ hk.out.val # PyNone

\* C17 amended: call_hook_from_backward_state calls the hook found under
\* hook_name once with the given arguments and returns exactly what the
\* hook returned, None included.
C17_SingleHookForwarding ==
    HookFromStateRan =>
        /\ Len(hk.calls) = 1
        /\ hk.calls[1].hook = BwState(hk.hooks)[hk.name]
        /\ hk.calls[1].argv = hk.args
        /\ hk.out = PyRet(hk.calls[1].ret)

\* a hook that returned None on two arguments: None is returned
C17_Witness ==
    /\ HookFromStateRan
    /\ Len(hk.args) = 2
    /\ hk.calls[1].ret = PyNone
    /\ hk.out = PyRet(PyNone)
====
